---- MODULE Spec2Model ----
(***************************************************************************)
(* Model of scripts/make_pickle_id_to_chrposrefalt.py: the reader of the   *)
(* sample corpus (pickle stream), the scan of the reference corpus         *)
(* (ClinVar variant_summary) with its row filters, and the partition of    *)
(* the collected candidates into the unique and the ambiguous table.       *)
(*                                                                         *)
(* A Python str is modelled as the sequence of its code points, so that    *)
(* strip(), upper(), lower(), isdigit(), int() and the f-string of the     *)
(* coordinate key are computed character by character.                     *)
(***************************************************************************)
EXTENDS Integers, Sequences, FiniteSets, TLC

VARIABLES
    pickle_file,        \* content of --pickle: the sequence of pickled objects
    clinvar_file,       \* content of --clinvar: the sequence of DictReader rows
    max_ids,            \* args.max_ids
    args_assembly,      \* args.assembly
    pc,                 \* position in main(): "read", "scan", "write", "done",
                        \* or "raised" when an exception has ended it
    f_pos,              \* number of objects pickle.load has returned
    ids,                \* ids: set[int]
    gz_pos,             \* number of rows the DictReader has yielded
    verdict,            \* which statement ended the last iteration of the row loop
    seen_rows,
    kept_rows,
    candidates,         \* candidates: dict[int, dict[str, tuple]]
    items,              \* sorted(candidates.items()), as the list of its identifiers
    item_pos,           \* number of items the partition loop has handled
    out_rows,           \* rows written by writer, after the header
    amb_rows,           \* rows written by amb_writer, after the header
    unique_written,
    ambiguous_written

vars == <<pickle_file, clinvar_file, max_ids, args_assembly, pc, f_pos, ids,
          gz_pos, verdict, seen_rows, kept_rows, candidates, items, item_pos,
          out_rows, amb_rows, unique_written, ambiguous_written>>

(***************************************************************************)
(* Bounds of the model.                                                    *)
(***************************************************************************)
MaxRecords == 3      \* longest sample corpus of the reader runs
MaxIdsArg == 2       \* largest --max-ids
MaxFilterRows == 2   \* longest reference corpus of the filter runs
MaxPartRows == 4     \* longest reference corpus of the partition runs

(***************************************************************************)
(* Characters and the str methods the script uses.                         *)
(*                                                                         *)
(* A character is its code point, 0 to 1114111, so ord() is the identity   *)
(* and str comparison is comparison of code points.  The tables are those  *)
(* of the Unicode database of the interpreter (14.0.0).  TLC's integers    *)
(* are 32 bits wide, Python's are unbounded: int() of more than nine       *)
(* digits is beyond what TLC evaluates.                                    *)
(***************************************************************************)
\* str.isspace(): the code points str.strip() removes
Whitespace ==
    { 9, 10, 11, 12, 13, 28, 29, 30, 31, 32,
      133, 160, 5760, 8192, 8193, 8194, 8195, 8196, 8197, 8198,
      8199, 8200, 8201, 8202, 8232, 8233, 8239, 8287, 12288 }

\* the code points int() skips around the digits of a str
IntWhitespace ==
    { 9, 10, 11, 12, 13, 32, 133, 160, 5760, 8192,
      8193, 8194, 8195, 8196, 8197, 8198, 8199, 8200, 8201, 8202,
      8232, 8233, 8239, 8287, 12288 }

\* the code points of b" \t\n\v\f\r", which int() skips around the digits of bytes
BytesWhitespace == {9, 10, 11, 12, 13, 32}

\* the ranges <<first, last>> of the code points for which str.isdigit() holds
DigitRanges ==
    { <<48, 57>>, <<178, 179>>, <<185, 185>>, <<1632, 1641>>, <<1776, 1785>>,
      <<1984, 1993>>, <<2406, 2415>>, <<2534, 2543>>, <<2662, 2671>>, <<2790, 2799>>,
      <<2918, 2927>>, <<3046, 3055>>, <<3174, 3183>>, <<3302, 3311>>, <<3430, 3439>>,
      <<3558, 3567>>, <<3664, 3673>>, <<3792, 3801>>, <<3872, 3881>>, <<4160, 4169>>,
      <<4240, 4249>>, <<4969, 4977>>, <<6112, 6121>>, <<6160, 6169>>, <<6470, 6479>>,
      <<6608, 6618>>, <<6784, 6793>>, <<6800, 6809>>, <<6992, 7001>>, <<7088, 7097>>,
      <<7232, 7241>>, <<7248, 7257>>, <<8304, 8304>>, <<8308, 8313>>, <<8320, 8329>>,
      <<9312, 9320>>, <<9332, 9340>>, <<9352, 9360>>, <<9450, 9450>>, <<9461, 9469>>,
      <<9471, 9471>>, <<10102, 10110>>, <<10112, 10120>>, <<10122, 10130>>, <<42528, 42537>>,
      <<43216, 43225>>, <<43264, 43273>>, <<43472, 43481>>, <<43504, 43513>>, <<43600, 43609>>,
      <<44016, 44025>>, <<65296, 65305>>, <<66720, 66729>>, <<68160, 68163>>, <<68912, 68921>>,
      <<69216, 69224>>, <<69714, 69722>>, <<69734, 69743>>, <<69872, 69881>>, <<69942, 69951>>,
      <<70096, 70105>>, <<70384, 70393>>, <<70736, 70745>>, <<70864, 70873>>, <<71248, 71257>>,
      <<71360, 71369>>, <<71472, 71481>>, <<71904, 71913>>, <<72016, 72025>>, <<72784, 72793>>,
      <<73040, 73049>>, <<73120, 73129>>, <<92768, 92777>>, <<92864, 92873>>, <<93008, 93017>>,
      <<120782, 120831>>, <<123200, 123209>>, <<123632, 123641>>, <<125264, 125273>>, <<127232, 127242>>,
      <<130032, 130041>> }

\* the code points of the digit zero of every decimal script; the digits
\* 1 to 9 of the script follow it
DecimalZeros ==
    { 48, 1632, 1776, 1984, 2406, 2534, 2662, 2790, 2918,
      3046, 3174, 3302, 3430, 3558, 3664, 3792, 3872, 4160,
      4240, 6112, 6160, 6470, 6608, 6784, 6800, 6992, 7088,
      7232, 7248, 42528, 43216, 43264, 43472, 43504, 43600, 44016,
      65296, 66720, 68912, 69734, 69872, 69942, 70096, 70384, 70736,
      70864, 71248, 71360, 71472, 71904, 72016, 72784, 73040, 73120,
      92768, 92864, 93008, 120782, 120792, 120802, 120812, 120822, 123200,
      123632, 125264, 130032 }

\* str.upper() of one code point above 127 that maps to one code point:
\* <<first, last, stride, offset>>
UpperRuns ==
    { <<181, 181, 1, 743>>, <<224, 246, 1, -32>>, <<248, 254, 1, -32>>,
      <<255, 255, 1, 121>>, <<257, 303, 2, -1>>, <<305, 305, 1, -232>>,
      <<307, 311, 2, -1>>, <<314, 328, 2, -1>>, <<331, 375, 2, -1>>,
      <<378, 382, 2, -1>>, <<383, 383, 1, -300>>, <<384, 384, 1, 195>>,
      <<387, 389, 2, -1>>, <<392, 392, 1, -1>>, <<396, 396, 1, -1>>,
      <<402, 402, 1, -1>>, <<405, 405, 1, 97>>, <<409, 409, 1, -1>>,
      <<410, 410, 1, 163>>, <<414, 414, 1, 130>>, <<417, 421, 2, -1>>,
      <<424, 424, 1, -1>>, <<429, 429, 1, -1>>, <<432, 432, 1, -1>>,
      <<436, 438, 2, -1>>, <<441, 441, 1, -1>>, <<445, 445, 1, -1>>,
      <<447, 447, 1, 56>>, <<453, 453, 1, -1>>, <<454, 454, 1, -2>>,
      <<456, 456, 1, -1>>, <<457, 457, 1, -2>>, <<459, 459, 1, -1>>,
      <<460, 460, 1, -2>>, <<462, 476, 2, -1>>, <<477, 477, 1, -79>>,
      <<479, 495, 2, -1>>, <<498, 498, 1, -1>>, <<499, 499, 1, -2>>,
      <<501, 501, 1, -1>>, <<505, 543, 2, -1>>, <<547, 563, 2, -1>>,
      <<572, 572, 1, -1>>, <<575, 576, 1, 10815>>, <<578, 578, 1, -1>>,
      <<583, 591, 2, -1>>, <<592, 592, 1, 10783>>, <<593, 593, 1, 10780>>,
      <<594, 594, 1, 10782>>, <<595, 595, 1, -210>>, <<596, 596, 1, -206>>,
      <<598, 599, 1, -205>>, <<601, 601, 1, -202>>, <<603, 603, 1, -203>>,
      <<604, 604, 1, 42319>>, <<608, 608, 1, -205>>, <<609, 609, 1, 42315>>,
      <<611, 611, 1, -207>>, <<613, 613, 1, 42280>>, <<614, 614, 1, 42308>>,
      <<616, 616, 1, -209>>, <<617, 617, 1, -211>>, <<618, 618, 1, 42308>>,
      <<619, 619, 1, 10743>>, <<620, 620, 1, 42305>>, <<623, 623, 1, -211>>,
      <<625, 625, 1, 10749>>, <<626, 626, 1, -213>>, <<629, 629, 1, -214>>,
      <<637, 637, 1, 10727>>, <<640, 640, 1, -218>>, <<642, 642, 1, 42307>>,
      <<643, 643, 1, -218>>, <<647, 647, 1, 42282>>, <<648, 648, 1, -218>>,
      <<649, 649, 1, -69>>, <<650, 651, 1, -217>>, <<652, 652, 1, -71>>,
      <<658, 658, 1, -219>>, <<669, 669, 1, 42261>>, <<670, 670, 1, 42258>>,
      <<837, 837, 1, 84>>, <<881, 883, 2, -1>>, <<887, 887, 1, -1>>,
      <<891, 893, 1, 130>>, <<940, 940, 1, -38>>, <<941, 943, 1, -37>>,
      <<945, 961, 1, -32>>, <<962, 962, 1, -31>>, <<963, 971, 1, -32>>,
      <<972, 972, 1, -64>>, <<973, 974, 1, -63>>, <<976, 976, 1, -62>>,
      <<977, 977, 1, -57>>, <<981, 981, 1, -47>>, <<982, 982, 1, -54>>,
      <<983, 983, 1, -8>>, <<985, 1007, 2, -1>>, <<1008, 1008, 1, -86>>,
      <<1009, 1009, 1, -80>>, <<1010, 1010, 1, 7>>, <<1011, 1011, 1, -116>>,
      <<1013, 1013, 1, -96>>, <<1016, 1016, 1, -1>>, <<1019, 1019, 1, -1>>,
      <<1072, 1103, 1, -32>>, <<1104, 1119, 1, -80>>, <<1121, 1153, 2, -1>>,
      <<1163, 1215, 2, -1>>, <<1218, 1230, 2, -1>>, <<1231, 1231, 1, -15>>,
      <<1233, 1327, 2, -1>>, <<1377, 1414, 1, -48>>, <<4304, 4346, 1, 3008>>,
      <<4349, 4351, 1, 3008>>, <<5112, 5117, 1, -8>>, <<7296, 7296, 1, -6254>>,
      <<7297, 7297, 1, -6253>>, <<7298, 7298, 1, -6244>>, <<7299, 7300, 1, -6242>>,
      <<7301, 7301, 1, -6243>>, <<7302, 7302, 1, -6236>>, <<7303, 7303, 1, -6181>>,
      <<7304, 7304, 1, 35266>>, <<7545, 7545, 1, 35332>>, <<7549, 7549, 1, 3814>>,
      <<7566, 7566, 1, 35384>>, <<7681, 7829, 2, -1>>, <<7835, 7835, 1, -59>>,
      <<7841, 7935, 2, -1>>, <<7936, 7943, 1, 8>>, <<7952, 7957, 1, 8>>,
      <<7968, 7975, 1, 8>>, <<7984, 7991, 1, 8>>, <<8000, 8005, 1, 8>>,
      <<8017, 8023, 2, 8>>, <<8032, 8039, 1, 8>>, <<8048, 8049, 1, 74>>,
      <<8050, 8053, 1, 86>>, <<8054, 8055, 1, 100>>, <<8056, 8057, 1, 128>>,
      <<8058, 8059, 1, 112>>, <<8060, 8061, 1, 126>>, <<8112, 8113, 1, 8>>,
      <<8126, 8126, 1, -7205>>, <<8144, 8145, 1, 8>>, <<8160, 8161, 1, 8>>,
      <<8165, 8165, 1, 7>>, <<8526, 8526, 1, -28>>, <<8560, 8575, 1, -16>>,
      <<8580, 8580, 1, -1>>, <<9424, 9449, 1, -26>>, <<11312, 11359, 1, -48>>,
      <<11361, 11361, 1, -1>>, <<11365, 11365, 1, -10795>>, <<11366, 11366, 1, -10792>>,
      <<11368, 11372, 2, -1>>, <<11379, 11379, 1, -1>>, <<11382, 11382, 1, -1>>,
      <<11393, 11491, 2, -1>>, <<11500, 11502, 2, -1>>, <<11507, 11507, 1, -1>>,
      <<11520, 11557, 1, -7264>>, <<11559, 11559, 1, -7264>>, <<11565, 11565, 1, -7264>>,
      <<42561, 42605, 2, -1>>, <<42625, 42651, 2, -1>>, <<42787, 42799, 2, -1>>,
      <<42803, 42863, 2, -1>>, <<42874, 42876, 2, -1>>, <<42879, 42887, 2, -1>>,
      <<42892, 42892, 1, -1>>, <<42897, 42899, 2, -1>>, <<42900, 42900, 1, 48>>,
      <<42903, 42921, 2, -1>>, <<42933, 42947, 2, -1>>, <<42952, 42954, 2, -1>>,
      <<42961, 42961, 1, -1>>, <<42967, 42969, 2, -1>>, <<42998, 42998, 1, -1>>,
      <<43859, 43859, 1, -928>>, <<43888, 43967, 1, -38864>>, <<65345, 65370, 1, -32>>,
      <<66600, 66639, 1, -40>>, <<66776, 66811, 1, -40>>, <<66967, 67003, 2, -39>>,
      <<66968, 66976, 2, -39>>, <<66980, 66992, 2, -39>>, <<66996, 67000, 2, -39>>,
      <<67004, 67004, 1, -39>>, <<68800, 68850, 1, -64>>, <<71872, 71903, 1, -32>>,
      <<93792, 93823, 1, -32>>, <<125218, 125251, 1, -34>> }

\* str.upper() of one code point that maps to several: <<code point, result>>
UpperSpecial ==
    { <<223, <<83, 83>>>>, <<329, <<700, 78>>>>, <<496, <<74, 780>>>>,
      <<912, <<921, 776, 769>>>>, <<944, <<933, 776, 769>>>>, <<1415, <<1333, 1362>>>>,
      <<7830, <<72, 817>>>>, <<7831, <<84, 776>>>>, <<7832, <<87, 778>>>>,
      <<7833, <<89, 778>>>>, <<7834, <<65, 702>>>>, <<8016, <<933, 787>>>>,
      <<8018, <<933, 787, 768>>>>, <<8020, <<933, 787, 769>>>>, <<8022, <<933, 787, 834>>>>,
      <<8064, <<7944, 921>>>>, <<8065, <<7945, 921>>>>, <<8066, <<7946, 921>>>>,
      <<8067, <<7947, 921>>>>, <<8068, <<7948, 921>>>>, <<8069, <<7949, 921>>>>,
      <<8070, <<7950, 921>>>>, <<8071, <<7951, 921>>>>, <<8072, <<7944, 921>>>>,
      <<8073, <<7945, 921>>>>, <<8074, <<7946, 921>>>>, <<8075, <<7947, 921>>>>,
      <<8076, <<7948, 921>>>>, <<8077, <<7949, 921>>>>, <<8078, <<7950, 921>>>>,
      <<8079, <<7951, 921>>>>, <<8080, <<7976, 921>>>>, <<8081, <<7977, 921>>>>,
      <<8082, <<7978, 921>>>>, <<8083, <<7979, 921>>>>, <<8084, <<7980, 921>>>>,
      <<8085, <<7981, 921>>>>, <<8086, <<7982, 921>>>>, <<8087, <<7983, 921>>>>,
      <<8088, <<7976, 921>>>>, <<8089, <<7977, 921>>>>, <<8090, <<7978, 921>>>>,
      <<8091, <<7979, 921>>>>, <<8092, <<7980, 921>>>>, <<8093, <<7981, 921>>>>,
      <<8094, <<7982, 921>>>>, <<8095, <<7983, 921>>>>, <<8096, <<8040, 921>>>>,
      <<8097, <<8041, 921>>>>, <<8098, <<8042, 921>>>>, <<8099, <<8043, 921>>>>,
      <<8100, <<8044, 921>>>>, <<8101, <<8045, 921>>>>, <<8102, <<8046, 921>>>>,
      <<8103, <<8047, 921>>>>, <<8104, <<8040, 921>>>>, <<8105, <<8041, 921>>>>,
      <<8106, <<8042, 921>>>>, <<8107, <<8043, 921>>>>, <<8108, <<8044, 921>>>>,
      <<8109, <<8045, 921>>>>, <<8110, <<8046, 921>>>>, <<8111, <<8047, 921>>>>,
      <<8114, <<8122, 921>>>>, <<8115, <<913, 921>>>>, <<8116, <<902, 921>>>>,
      <<8118, <<913, 834>>>>, <<8119, <<913, 834, 921>>>>, <<8124, <<913, 921>>>>,
      <<8130, <<8138, 921>>>>, <<8131, <<919, 921>>>>, <<8132, <<905, 921>>>>,
      <<8134, <<919, 834>>>>, <<8135, <<919, 834, 921>>>>, <<8140, <<919, 921>>>>,
      <<8146, <<921, 776, 768>>>>, <<8147, <<921, 776, 769>>>>, <<8150, <<921, 834>>>>,
      <<8151, <<921, 776, 834>>>>, <<8162, <<933, 776, 768>>>>, <<8163, <<933, 776, 769>>>>,
      <<8164, <<929, 787>>>>, <<8166, <<933, 834>>>>, <<8167, <<933, 776, 834>>>>,
      <<8178, <<8186, 921>>>>, <<8179, <<937, 921>>>>, <<8180, <<911, 921>>>>,
      <<8182, <<937, 834>>>>, <<8183, <<937, 834, 921>>>>, <<8188, <<937, 921>>>>,
      <<64256, <<70, 70>>>>, <<64257, <<70, 73>>>>, <<64258, <<70, 76>>>>,
      <<64259, <<70, 70, 73>>>>, <<64260, <<70, 70, 76>>>>, <<64261, <<83, 84>>>>,
      <<64262, <<83, 84>>>>, <<64275, <<1348, 1350>>>>, <<64276, <<1348, 1333>>>>,
      <<64277, <<1348, 1339>>>>, <<64278, <<1358, 1350>>>>, <<64279, <<1348, 1341>>>> }

\* str.lower() of one code point above 127 that maps to one code point:
\* <<first, last, stride, offset>>
LowerRuns ==
    { <<192, 214, 1, 32>>, <<216, 222, 1, 32>>, <<256, 302, 2, 1>>,
      <<306, 310, 2, 1>>, <<313, 327, 2, 1>>, <<330, 374, 2, 1>>,
      <<376, 376, 1, -121>>, <<377, 381, 2, 1>>, <<385, 385, 1, 210>>,
      <<386, 388, 2, 1>>, <<390, 390, 1, 206>>, <<391, 391, 1, 1>>,
      <<393, 394, 1, 205>>, <<395, 395, 1, 1>>, <<398, 398, 1, 79>>,
      <<399, 399, 1, 202>>, <<400, 400, 1, 203>>, <<401, 401, 1, 1>>,
      <<403, 403, 1, 205>>, <<404, 404, 1, 207>>, <<406, 406, 1, 211>>,
      <<407, 407, 1, 209>>, <<408, 408, 1, 1>>, <<412, 412, 1, 211>>,
      <<413, 413, 1, 213>>, <<415, 415, 1, 214>>, <<416, 420, 2, 1>>,
      <<422, 422, 1, 218>>, <<423, 423, 1, 1>>, <<425, 425, 1, 218>>,
      <<428, 428, 1, 1>>, <<430, 430, 1, 218>>, <<431, 431, 1, 1>>,
      <<433, 434, 1, 217>>, <<435, 437, 2, 1>>, <<439, 439, 1, 219>>,
      <<440, 440, 1, 1>>, <<444, 444, 1, 1>>, <<452, 452, 1, 2>>,
      <<453, 453, 1, 1>>, <<455, 455, 1, 2>>, <<456, 456, 1, 1>>,
      <<458, 458, 1, 2>>, <<459, 475, 2, 1>>, <<478, 494, 2, 1>>,
      <<497, 497, 1, 2>>, <<498, 500, 2, 1>>, <<502, 502, 1, -97>>,
      <<503, 503, 1, -56>>, <<504, 542, 2, 1>>, <<544, 544, 1, -130>>,
      <<546, 562, 2, 1>>, <<570, 570, 1, 10795>>, <<571, 571, 1, 1>>,
      <<573, 573, 1, -163>>, <<574, 574, 1, 10792>>, <<577, 577, 1, 1>>,
      <<579, 579, 1, -195>>, <<580, 580, 1, 69>>, <<581, 581, 1, 71>>,
      <<582, 590, 2, 1>>, <<880, 882, 2, 1>>, <<886, 886, 1, 1>>,
      <<895, 895, 1, 116>>, <<902, 902, 1, 38>>, <<904, 906, 1, 37>>,
      <<908, 908, 1, 64>>, <<910, 911, 1, 63>>, <<913, 929, 1, 32>>,
      <<932, 939, 1, 32>>, <<975, 975, 1, 8>>, <<984, 1006, 2, 1>>,
      <<1012, 1012, 1, -60>>, <<1015, 1015, 1, 1>>, <<1017, 1017, 1, -7>>,
      <<1018, 1018, 1, 1>>, <<1021, 1023, 1, -130>>, <<1024, 1039, 1, 80>>,
      <<1040, 1071, 1, 32>>, <<1120, 1152, 2, 1>>, <<1162, 1214, 2, 1>>,
      <<1216, 1216, 1, 15>>, <<1217, 1229, 2, 1>>, <<1232, 1326, 2, 1>>,
      <<1329, 1366, 1, 48>>, <<4256, 4293, 1, 7264>>, <<4295, 4295, 1, 7264>>,
      <<4301, 4301, 1, 7264>>, <<5024, 5103, 1, 38864>>, <<5104, 5109, 1, 8>>,
      <<7312, 7354, 1, -3008>>, <<7357, 7359, 1, -3008>>, <<7680, 7828, 2, 1>>,
      <<7838, 7838, 1, -7615>>, <<7840, 7934, 2, 1>>, <<7944, 7951, 1, -8>>,
      <<7960, 7965, 1, -8>>, <<7976, 7983, 1, -8>>, <<7992, 7999, 1, -8>>,
      <<8008, 8013, 1, -8>>, <<8025, 8031, 2, -8>>, <<8040, 8047, 1, -8>>,
      <<8072, 8079, 1, -8>>, <<8088, 8095, 1, -8>>, <<8104, 8111, 1, -8>>,
      <<8120, 8121, 1, -8>>, <<8122, 8123, 1, -74>>, <<8124, 8124, 1, -9>>,
      <<8136, 8139, 1, -86>>, <<8140, 8140, 1, -9>>, <<8152, 8153, 1, -8>>,
      <<8154, 8155, 1, -100>>, <<8168, 8169, 1, -8>>, <<8170, 8171, 1, -112>>,
      <<8172, 8172, 1, -7>>, <<8184, 8185, 1, -128>>, <<8186, 8187, 1, -126>>,
      <<8188, 8188, 1, -9>>, <<8486, 8486, 1, -7517>>, <<8490, 8490, 1, -8383>>,
      <<8491, 8491, 1, -8262>>, <<8498, 8498, 1, 28>>, <<8544, 8559, 1, 16>>,
      <<8579, 8579, 1, 1>>, <<9398, 9423, 1, 26>>, <<11264, 11311, 1, 48>>,
      <<11360, 11360, 1, 1>>, <<11362, 11362, 1, -10743>>, <<11363, 11363, 1, -3814>>,
      <<11364, 11364, 1, -10727>>, <<11367, 11371, 2, 1>>, <<11373, 11373, 1, -10780>>,
      <<11374, 11374, 1, -10749>>, <<11375, 11375, 1, -10783>>, <<11376, 11376, 1, -10782>>,
      <<11378, 11378, 1, 1>>, <<11381, 11381, 1, 1>>, <<11390, 11391, 1, -10815>>,
      <<11392, 11490, 2, 1>>, <<11499, 11501, 2, 1>>, <<11506, 11506, 1, 1>>,
      <<42560, 42604, 2, 1>>, <<42624, 42650, 2, 1>>, <<42786, 42798, 2, 1>>,
      <<42802, 42862, 2, 1>>, <<42873, 42875, 2, 1>>, <<42877, 42877, 1, -35332>>,
      <<42878, 42886, 2, 1>>, <<42891, 42891, 1, 1>>, <<42893, 42893, 1, -42280>>,
      <<42896, 42898, 2, 1>>, <<42902, 42920, 2, 1>>, <<42922, 42922, 1, -42308>>,
      <<42923, 42923, 1, -42319>>, <<42924, 42924, 1, -42315>>, <<42925, 42925, 1, -42305>>,
      <<42926, 42926, 1, -42308>>, <<42928, 42928, 1, -42258>>, <<42929, 42929, 1, -42282>>,
      <<42930, 42930, 1, -42261>>, <<42931, 42931, 1, 928>>, <<42932, 42946, 2, 1>>,
      <<42948, 42948, 1, -48>>, <<42949, 42949, 1, -42307>>, <<42950, 42950, 1, -35384>>,
      <<42951, 42953, 2, 1>>, <<42960, 42960, 1, 1>>, <<42966, 42968, 2, 1>>,
      <<42997, 42997, 1, 1>>, <<65313, 65338, 1, 32>>, <<66560, 66599, 1, 40>>,
      <<66736, 66771, 1, 40>>, <<66928, 66964, 2, 39>>, <<66929, 66937, 2, 39>>,
      <<66941, 66953, 2, 39>>, <<66957, 66961, 2, 39>>, <<66965, 66965, 1, 39>>,
      <<68736, 68786, 1, 64>>, <<71840, 71871, 1, 32>>, <<93760, 93791, 1, 32>>,
      <<125184, 125217, 1, 34>> }

\* str.lower() of one code point that maps to several: <<code point, result>>
LowerSpecial ==
    { <<304, <<105, 775>>>> }

\* the ranges of the case-ignorable code points
CaseIgnorableRanges ==
    { <<39, 39>>, <<46, 46>>, <<58, 58>>, <<94, 94>>, <<96, 96>>,
      <<168, 168>>, <<173, 173>>, <<175, 175>>, <<180, 180>>, <<183, 184>>,
      <<688, 879>>, <<884, 885>>, <<890, 890>>, <<900, 901>>, <<903, 903>>,
      <<1155, 1161>>, <<1369, 1369>>, <<1375, 1375>>, <<1425, 1469>>, <<1471, 1471>>,
      <<1473, 1474>>, <<1476, 1477>>, <<1479, 1479>>, <<1524, 1524>>, <<1536, 1541>>,
      <<1552, 1562>>, <<1564, 1564>>, <<1600, 1600>>, <<1611, 1631>>, <<1648, 1648>>,
      <<1750, 1757>>, <<1759, 1768>>, <<1770, 1773>>, <<1807, 1807>>, <<1809, 1809>>,
      <<1840, 1866>>, <<1958, 1968>>, <<2027, 2037>>, <<2042, 2042>>, <<2045, 2045>>,
      <<2070, 2093>>, <<2137, 2139>>, <<2184, 2184>>, <<2192, 2193>>, <<2200, 2207>>,
      <<2249, 2306>>, <<2362, 2362>>, <<2364, 2364>>, <<2369, 2376>>, <<2381, 2381>>,
      <<2385, 2391>>, <<2402, 2403>>, <<2417, 2417>>, <<2433, 2433>>, <<2492, 2492>>,
      <<2497, 2500>>, <<2509, 2509>>, <<2530, 2531>>, <<2558, 2558>>, <<2561, 2562>>,
      <<2620, 2620>>, <<2625, 2626>>, <<2631, 2632>>, <<2635, 2637>>, <<2641, 2641>>,
      <<2672, 2673>>, <<2677, 2677>>, <<2689, 2690>>, <<2748, 2748>>, <<2753, 2757>>,
      <<2759, 2760>>, <<2765, 2765>>, <<2786, 2787>>, <<2810, 2815>>, <<2817, 2817>>,
      <<2876, 2876>>, <<2879, 2879>>, <<2881, 2884>>, <<2893, 2893>>, <<2901, 2902>>,
      <<2914, 2915>>, <<2946, 2946>>, <<3008, 3008>>, <<3021, 3021>>, <<3072, 3072>>,
      <<3076, 3076>>, <<3132, 3132>>, <<3134, 3136>>, <<3142, 3144>>, <<3146, 3149>>,
      <<3157, 3158>>, <<3170, 3171>>, <<3201, 3201>>, <<3260, 3260>>, <<3263, 3263>>,
      <<3270, 3270>>, <<3276, 3277>>, <<3298, 3299>>, <<3328, 3329>>, <<3387, 3388>>,
      <<3393, 3396>>, <<3405, 3405>>, <<3426, 3427>>, <<3457, 3457>>, <<3530, 3530>>,
      <<3538, 3540>>, <<3542, 3542>>, <<3633, 3633>>, <<3636, 3642>>, <<3654, 3662>>,
      <<3761, 3761>>, <<3764, 3772>>, <<3782, 3782>>, <<3784, 3789>>, <<3864, 3865>>,
      <<3893, 3893>>, <<3895, 3895>>, <<3897, 3897>>, <<3953, 3966>>, <<3968, 3972>>,
      <<3974, 3975>>, <<3981, 3991>>, <<3993, 4028>>, <<4038, 4038>>, <<4141, 4144>>,
      <<4146, 4151>>, <<4153, 4154>>, <<4157, 4158>>, <<4184, 4185>>, <<4190, 4192>>,
      <<4209, 4212>>, <<4226, 4226>>, <<4229, 4230>>, <<4237, 4237>>, <<4253, 4253>>,
      <<4348, 4348>>, <<4957, 4959>>, <<5906, 5908>>, <<5938, 5939>>, <<5970, 5971>>,
      <<6002, 6003>>, <<6068, 6069>>, <<6071, 6077>>, <<6086, 6086>>, <<6089, 6099>>,
      <<6103, 6103>>, <<6109, 6109>>, <<6155, 6159>>, <<6211, 6211>>, <<6277, 6278>>,
      <<6313, 6313>>, <<6432, 6434>>, <<6439, 6440>>, <<6450, 6450>>, <<6457, 6459>>,
      <<6679, 6680>>, <<6683, 6683>>, <<6742, 6742>>, <<6744, 6750>>, <<6752, 6752>>,
      <<6754, 6754>>, <<6757, 6764>>, <<6771, 6780>>, <<6783, 6783>>, <<6823, 6823>>,
      <<6832, 6862>>, <<6912, 6915>>, <<6964, 6964>>, <<6966, 6970>>, <<6972, 6972>>,
      <<6978, 6978>>, <<7019, 7027>>, <<7040, 7041>>, <<7074, 7077>>, <<7080, 7081>>,
      <<7083, 7085>>, <<7142, 7142>>, <<7144, 7145>>, <<7149, 7149>>, <<7151, 7153>>,
      <<7212, 7219>>, <<7222, 7223>>, <<7288, 7293>>, <<7376, 7378>>, <<7380, 7392>>,
      <<7394, 7400>>, <<7405, 7405>>, <<7412, 7412>>, <<7416, 7417>>, <<7468, 7530>>,
      <<7544, 7544>>, <<7579, 7679>>, <<8125, 8125>>, <<8127, 8129>>, <<8141, 8143>>,
      <<8157, 8159>>, <<8173, 8175>>, <<8189, 8190>>, <<8203, 8207>>, <<8216, 8217>>,
      <<8228, 8228>>, <<8231, 8231>>, <<8234, 8238>>, <<8288, 8292>>, <<8294, 8303>>,
      <<8305, 8305>>, <<8319, 8319>>, <<8336, 8348>>, <<8400, 8432>>, <<11388, 11389>>,
      <<11503, 11505>>, <<11631, 11631>>, <<11647, 11647>>, <<11744, 11775>>, <<11823, 11823>>,
      <<12293, 12293>>, <<12330, 12333>>, <<12337, 12341>>, <<12347, 12347>>, <<12441, 12446>>,
      <<12540, 12542>>, <<40981, 40981>>, <<42232, 42237>>, <<42508, 42508>>, <<42607, 42610>>,
      <<42612, 42621>>, <<42623, 42623>>, <<42652, 42655>>, <<42736, 42737>>, <<42752, 42785>>,
      <<42864, 42864>>, <<42888, 42890>>, <<42994, 42996>>, <<43000, 43001>>, <<43010, 43010>>,
      <<43014, 43014>>, <<43019, 43019>>, <<43045, 43046>>, <<43052, 43052>>, <<43204, 43205>>,
      <<43232, 43249>>, <<43263, 43263>>, <<43302, 43309>>, <<43335, 43345>>, <<43392, 43394>>,
      <<43443, 43443>>, <<43446, 43449>>, <<43452, 43453>>, <<43471, 43471>>, <<43493, 43494>>,
      <<43561, 43566>>, <<43569, 43570>>, <<43573, 43574>>, <<43587, 43587>>, <<43596, 43596>>,
      <<43632, 43632>>, <<43644, 43644>>, <<43696, 43696>>, <<43698, 43700>>, <<43703, 43704>>,
      <<43710, 43711>>, <<43713, 43713>>, <<43741, 43741>>, <<43756, 43757>>, <<43763, 43764>>,
      <<43766, 43766>>, <<43867, 43871>>, <<43881, 43883>>, <<44005, 44005>>, <<44008, 44008>>,
      <<44013, 44013>>, <<64286, 64286>>, <<64434, 64450>>, <<65024, 65039>>, <<65043, 65043>>,
      <<65056, 65071>>, <<65106, 65106>>, <<65109, 65109>>, <<65279, 65279>>, <<65287, 65287>>,
      <<65294, 65294>>, <<65306, 65306>>, <<65342, 65342>>, <<65344, 65344>>, <<65392, 65392>>,
      <<65438, 65439>>, <<65507, 65507>>, <<65529, 65531>>, <<66045, 66045>>, <<66272, 66272>>,
      <<66422, 66426>>, <<67456, 67461>>, <<67463, 67504>>, <<67506, 67514>>, <<68097, 68099>>,
      <<68101, 68102>>, <<68108, 68111>>, <<68152, 68154>>, <<68159, 68159>>, <<68325, 68326>>,
      <<68900, 68903>>, <<69291, 69292>>, <<69446, 69456>>, <<69506, 69509>>, <<69633, 69633>>,
      <<69688, 69702>>, <<69744, 69744>>, <<69747, 69748>>, <<69759, 69761>>, <<69811, 69814>>,
      <<69817, 69818>>, <<69821, 69821>>, <<69826, 69826>>, <<69837, 69837>>, <<69888, 69890>>,
      <<69927, 69931>>, <<69933, 69940>>, <<70003, 70003>>, <<70016, 70017>>, <<70070, 70078>>,
      <<70089, 70092>>, <<70095, 70095>>, <<70191, 70193>>, <<70196, 70196>>, <<70198, 70199>>,
      <<70206, 70206>>, <<70367, 70367>>, <<70371, 70378>>, <<70400, 70401>>, <<70459, 70460>>,
      <<70464, 70464>>, <<70502, 70508>>, <<70512, 70516>>, <<70712, 70719>>, <<70722, 70724>>,
      <<70726, 70726>>, <<70750, 70750>>, <<70835, 70840>>, <<70842, 70842>>, <<70847, 70848>>,
      <<70850, 70851>>, <<71090, 71093>>, <<71100, 71101>>, <<71103, 71104>>, <<71132, 71133>>,
      <<71219, 71226>>, <<71229, 71229>>, <<71231, 71232>>, <<71339, 71339>>, <<71341, 71341>>,
      <<71344, 71349>>, <<71351, 71351>>, <<71453, 71455>>, <<71458, 71461>>, <<71463, 71467>>,
      <<71727, 71735>>, <<71737, 71738>>, <<71995, 71996>>, <<71998, 71998>>, <<72003, 72003>>,
      <<72148, 72151>>, <<72154, 72155>>, <<72160, 72160>>, <<72193, 72202>>, <<72243, 72248>>,
      <<72251, 72254>>, <<72263, 72263>>, <<72273, 72278>>, <<72281, 72283>>, <<72330, 72342>>,
      <<72344, 72345>>, <<72752, 72758>>, <<72760, 72765>>, <<72767, 72767>>, <<72850, 72871>>,
      <<72874, 72880>>, <<72882, 72883>>, <<72885, 72886>>, <<73009, 73014>>, <<73018, 73018>>,
      <<73020, 73021>>, <<73023, 73029>>, <<73031, 73031>>, <<73104, 73105>>, <<73109, 73109>>,
      <<73111, 73111>>, <<73459, 73460>>, <<78896, 78904>>, <<92912, 92916>>, <<92976, 92982>>,
      <<92992, 92995>>, <<94031, 94031>>, <<94095, 94111>>, <<94176, 94177>>, <<94179, 94180>>,
      <<110576, 110579>>, <<110581, 110587>>, <<110589, 110590>>, <<113821, 113822>>, <<113824, 113827>>,
      <<118528, 118573>>, <<118576, 118598>>, <<119143, 119145>>, <<119155, 119170>>, <<119173, 119179>>,
      <<119210, 119213>>, <<119362, 119364>>, <<121344, 121398>>, <<121403, 121452>>, <<121461, 121461>>,
      <<121476, 121476>>, <<121499, 121503>>, <<121505, 121519>>, <<122880, 122886>>, <<122888, 122904>>,
      <<122907, 122913>>, <<122915, 122916>>, <<122918, 122922>>, <<123184, 123197>>, <<123566, 123566>>,
      <<123628, 123631>>, <<125136, 125142>>, <<125252, 125259>>, <<127995, 127999>>, <<917505, 917505>>,
      <<917536, 917631>>, <<917760, 917999>> }

\* the ranges of the code points that are cased and not case-ignorable
CasedRanges ==
    { <<65, 90>>, <<97, 122>>, <<170, 170>>, <<181, 181>>, <<186, 186>>,
      <<192, 214>>, <<216, 246>>, <<248, 442>>, <<444, 447>>, <<452, 659>>,
      <<661, 687>>, <<880, 883>>, <<886, 887>>, <<891, 893>>, <<895, 895>>,
      <<902, 902>>, <<904, 906>>, <<908, 908>>, <<910, 929>>, <<931, 1013>>,
      <<1015, 1153>>, <<1162, 1327>>, <<1329, 1366>>, <<1376, 1416>>, <<4256, 4293>>,
      <<4295, 4295>>, <<4301, 4301>>, <<4304, 4346>>, <<4349, 4351>>, <<5024, 5109>>,
      <<5112, 5117>>, <<7296, 7304>>, <<7312, 7354>>, <<7357, 7359>>, <<7424, 7467>>,
      <<7531, 7543>>, <<7545, 7578>>, <<7680, 7957>>, <<7960, 7965>>, <<7968, 8005>>,
      <<8008, 8013>>, <<8016, 8023>>, <<8025, 8025>>, <<8027, 8027>>, <<8029, 8029>>,
      <<8031, 8061>>, <<8064, 8116>>, <<8118, 8124>>, <<8126, 8126>>, <<8130, 8132>>,
      <<8134, 8140>>, <<8144, 8147>>, <<8150, 8155>>, <<8160, 8172>>, <<8178, 8180>>,
      <<8182, 8188>>, <<8450, 8450>>, <<8455, 8455>>, <<8458, 8467>>, <<8469, 8469>>,
      <<8473, 8477>>, <<8484, 8484>>, <<8486, 8486>>, <<8488, 8488>>, <<8490, 8493>>,
      <<8495, 8500>>, <<8505, 8505>>, <<8508, 8511>>, <<8517, 8521>>, <<8526, 8526>>,
      <<8544, 8575>>, <<8579, 8580>>, <<9398, 9449>>, <<11264, 11387>>, <<11390, 11492>>,
      <<11499, 11502>>, <<11506, 11507>>, <<11520, 11557>>, <<11559, 11559>>, <<11565, 11565>>,
      <<42560, 42605>>, <<42624, 42651>>, <<42786, 42863>>, <<42865, 42887>>, <<42891, 42894>>,
      <<42896, 42954>>, <<42960, 42961>>, <<42963, 42963>>, <<42965, 42969>>, <<42997, 42998>>,
      <<43002, 43002>>, <<43824, 43866>>, <<43872, 43880>>, <<43888, 43967>>, <<64256, 64262>>,
      <<64275, 64279>>, <<65313, 65338>>, <<65345, 65370>>, <<66560, 66639>>, <<66736, 66771>>,
      <<66776, 66811>>, <<66928, 66938>>, <<66940, 66954>>, <<66956, 66962>>, <<66964, 66965>>,
      <<66967, 66977>>, <<66979, 66993>>, <<66995, 67001>>, <<67003, 67004>>, <<68736, 68786>>,
      <<68800, 68850>>, <<71840, 71903>>, <<93760, 93823>>, <<119808, 119892>>, <<119894, 119964>>,
      <<119966, 119967>>, <<119970, 119970>>, <<119973, 119974>>, <<119977, 119980>>, <<119982, 119993>>,
      <<119995, 119995>>, <<119997, 120003>>, <<120005, 120069>>, <<120071, 120074>>, <<120077, 120084>>,
      <<120086, 120092>>, <<120094, 120121>>, <<120123, 120126>>, <<120128, 120132>>, <<120134, 120134>>,
      <<120138, 120144>>, <<120146, 120485>>, <<120488, 120512>>, <<120514, 120538>>, <<120540, 120570>>,
      <<120572, 120596>>, <<120598, 120628>>, <<120630, 120654>>, <<120656, 120686>>, <<120688, 120712>>,
      <<120714, 120744>>, <<120746, 120770>>, <<120772, 120779>>, <<122624, 122633>>, <<122635, 122654>>,
      <<125184, 125251>>, <<127280, 127305>>, <<127312, 127337>>, <<127344, 127369>> }

\* sys.int_info.default_max_str_digits: int() raises ValueError on a str or
\* bytes with more decimal digits
MaxStrDigits == 4300

\* c lies in one of the ranges <<first, last>> of R
InRanges(c, R) == \E r \in R : r[1] <= c /\ c <= r[2]

\* the code points for which str.isdigit() holds
Digits == UNION {r[1]..r[2] : r \in DigitRanges}

\* the code points for which str.isdecimal() holds: the digits int() reads
DecimalDigits == UNION {z..(z + 9) : z \in DecimalZeros}

\* the value of a decimal digit
DecimalValue(c) == c - (CHOOSE z \in DecimalZeros : z <= c /\ c <= z + 9)

\* c lies in the run <<first, last, stride, offset>>
InRun(c, r) == r[1] <= c /\ c <= r[2] /\ (c - r[1]) % r[3] = 0

\* str.upper() of one character: a str of one to three characters
UpperChar(c) ==
    IF c >= 97 /\ c <= 122 THEN <<c - 32>>
    ELSE IF c < 128 THEN <<c>>
    ELSE IF \E r \in UpperRuns : InRun(c, r)
    THEN <<c + (CHOOSE r \in UpperRuns : InRun(c, r))[4]>>
    ELSE IF \E p \in UpperSpecial : p[1] = c
    THEN (CHOOSE p \in UpperSpecial : p[1] = c)[2]
    ELSE <<c>>

\* str.lower() of one character other than capital sigma
LowerChar(c) ==
    IF c >= 65 /\ c <= 90 THEN <<c + 32>>
    ELSE IF c < 128 THEN <<c>>
    ELSE IF \E r \in LowerRuns : InRun(c, r)
    THEN <<c + (CHOOSE r \in LowerRuns : InRun(c, r))[4]>>
    ELSE IF \E p \in LowerSpecial : p[1] = c
    THEN (CHOOSE p \in LowerSpecial : p[1] = c)[2]
    ELSE <<c>>

\* the capital sigma at s[i] is in final position: the nearest character
\* before it that is not case-ignorable is cased, and the nearest such
\* character after it, if any, is not
FinalSigma(s, i) ==
    LET before == {j \in 1..(i - 1) : ~InRanges(s[j], CaseIgnorableRanges)}
        after == {j \in (i + 1)..Len(s) : ~InRanges(s[j], CaseIgnorableRanges)}
    IN  /\ before # {}
        /\ InRanges(s[CHOOSE j \in before : \A k \in before : k <= j], CasedRanges)
        /\ \/ after = {}
           \/ ~InRanges(s[CHOOSE j \in after : \A k \in after : j <= k], CasedRanges)

\* s.upper()
RECURSIVE Upper(_)
Upper(s) == IF s = <<>> THEN <<>> ELSE UpperChar(Head(s)) \o Upper(Tail(s))

\* the lowercase of the characters of s from position i on
RECURSIVE LowerFrom(_, _)
LowerFrom(s, i) ==
    IF i > Len(s) THEN <<>>
    ELSE (IF s[i] = 931
          THEN (IF FinalSigma(s, i) THEN <<962>> ELSE <<963>>)
          ELSE LowerChar(s[i])) \o LowerFrom(s, i + 1)

\* s.lower()
Lower(s) == LowerFrom(s, 1)

\* s with the leading characters of the set chars removed
LStripOf(s, chars) ==
    LET kept == {i \in 1..Len(s) : s[i] \notin chars}
    IN  IF kept = {} THEN <<>>
        ELSE SubSeq(s, CHOOSE i \in kept : \A j \in kept : i <= j, Len(s))

\* s with the trailing characters of the set chars removed
RStripOf(s, chars) ==
    LET kept == {i \in 1..Len(s) : s[i] \notin chars}
    IN  IF kept = {} THEN <<>>
        ELSE SubSeq(s, 1, CHOOSE i \in kept : \A j \in kept : i >= j)

\* s.lstrip()
LStrip(s) == LStripOf(s, Whitespace)

\* s.rstrip()
RStrip(s) == RStripOf(s, Whitespace)

\* s.strip()
Strip(s) == RStrip(LStrip(s))

\* s.isdigit()
IsDigit(s) == s # <<>> /\ \A i \in 1..Len(s) : s[i] \in Digits

\* a < b on str: comparison by code point, a proper prefix being smaller
RECURSIVE StrLess(_, _)
StrLess(a, b) ==
    IF b = <<>> THEN FALSE
    ELSE IF a = <<>> THEN TRUE
    ELSE IF Head(a) # Head(b) THEN Head(a) < Head(b)
    ELSE StrLess(Tail(a), Tail(b))

\* the value of a string of decimal digits; leading zeros add nothing
RECURSIVE DigitsValue(_)
DigitsValue(s) ==
    LET nonzero == {i \in 1..Len(s) : DecimalValue(s[i]) # 0}
    IN  IF nonzero = {} THEN 0
        ELSE IF DecimalValue(s[1]) = 0
        THEN DigitsValue(SubSeq(s, CHOOSE i \in nonzero : \A j \in nonzero : i <= j, Len(s)))
        ELSE 10 * DigitsValue(SubSeq(s, 1, Len(s) - 1)) + DecimalValue(s[Len(s)])

\* the characters of s that are not underscores
DropUnderscores(s) == SelectSeq(s, LAMBDA c : c # 95)

\* int() of a text in base 10: surrounding characters of the set spaces, an
\* optional sign, then at most MaxStrDigits characters of the set digits,
\* with single underscores allowed between them.  ok is FALSE where Python
\* raises ValueError.
IntFromText(s, spaces, digits) ==
    LET t == RStripOf(LStripOf(s, spaces), spaces)
        signed == t # <<>> /\ Head(t) \in {43, 45}
        body == IF signed THEN Tail(t) ELSE t
        wellformed ==
            /\ body # <<>>
            /\ body[1] \in digits
            /\ body[Len(body)] \in digits
            /\ \A i \in 1..Len(body) : body[i] \in digits \cup {95}
            /\ \A i \in 1..(Len(body) - 1) : ~(body[i] = 95 /\ body[i + 1] = 95)
            /\ Len(DropUnderscores(body)) <= MaxStrDigits
        magnitude == DigitsValue(DropUnderscores(body))
    IN  IF ~wellformed THEN [ok |-> FALSE, v |-> 0]
        ELSE [ok |-> TRUE,
              v |-> IF signed /\ Head(t) = 45 THEN 0 - magnitude ELSE magnitude]

\* int(s) for a str
IntFromStr(s) == IntFromText(s, IntWhitespace, DecimalDigits)

\* int(b) for bytes or a bytearray, given as the sequence of its bytes
IntFromBytes(b) == IntFromText(b, BytesWhitespace, 48..57)

\* num / den truncated toward zero, for den > 0
Truncate(num, den) ==
    IF num >= 0 THEN num \div den ELSE 0 - ((0 - num) \div den)

\* int(x) returned v
Returns(v) == [ok |-> TRUE, v |-> v, exc |-> "none"]

\* int(x) raised: exc is "Exception" for an exception that `except Exception`
\* catches, "BaseException" for one it does not (SystemExit,
\* KeyboardInterrupt, GeneratorExit and the like)
Raises(exc) == [ok |-> FALSE, v |-> 0, exc |-> exc]

\* int(x) for a value a pickled record can hold under "ID".  ok is FALSE
\* where Python raises: ValueError for a bad str or bytes and for a NaN,
\* OverflowError for an infinity, TypeError for None and for any object
\* without __int__, __index__ or __trunc__, or whatever the method of an
\* object raises, which need not be an Exception.  An object that has such
\* a method (a numpy integer, say) converts to the int v the method returns.
\* A value is a record with its type and: v for an int; truth for a bool;
\* finite and the ratio num / den (den > 0) for a float or Decimal; num and
\* den for a Fraction; s, the code points, for a str; b, the bytes, for
\* bytes or a bytearray; for any other object converts and, when it
\* converts, v, else raises, "Exception" or "BaseException".
PyInt(x) ==
    CASE x.type = "int" -> Returns(x.v)
      [] x.type = "bool" -> Returns(IF x.truth THEN 1 ELSE 0)
      [] x.type \in {"float", "Decimal"} ->
            IF x.finite THEN Returns(Truncate(x.num, x.den)) ELSE Raises("Exception")
      [] x.type = "Fraction" -> Returns(Truncate(x.num, x.den))
      [] x.type = "str" ->
            IF IntFromStr(x.s).ok THEN Returns(IntFromStr(x.s).v)
            ELSE Raises("Exception")
      [] x.type \in {"bytes", "bytearray"} ->
            IF IntFromBytes(x.b).ok THEN Returns(IntFromBytes(x.b).v)
            ELSE Raises("Exception")
      [] x.type = "object" ->
            IF x.converts THEN Returns(x.v) ELSE Raises(x.raises)
      [] OTHER -> Raises("Exception")

\* _is_snv_allele written as a test of each character,
\* `all(c in "ACGT" for c in a)`, without the length check
_is_snv_allele_Substring(allele) ==
    LET a == Upper(Strip(allele))
    IN  a # <<>> /\ \A n \in 1..Len(a) : a[n] \in {65, 67, 71, 84}

\* _is_snv_allele(allele)
_is_snv_allele(allele) ==
    LET a == Upper(Strip(allele))
    IN  Len(a) = 1 /\ a \in {<<65>>, <<67>>, <<71>>, <<84>>}

\* _is_missing without the empty string among the missing words
_is_missing_NoEmpty(value) ==
    LET v == Lower(Strip(value))
    IN  v \in {<<110, 97>>, <<110, 47, 97>>, <<110, 97, 110>>,
               <<110, 111, 110, 101>>}

\* _is_missing(value)
_is_missing(value) ==
    LET v == Lower(Strip(value))
    IN  v \in {<<>>, <<110, 97>>, <<110, 47, 97>>, <<110, 97, 110>>,
               <<110, 111, 110, 101>>}

(***************************************************************************)
(* The scan of the reference corpus, lines 108-141.                        *)
(*                                                                         *)
(* A row is the dict csv.DictReader yields: a record whose fields are the  *)
(* columns the row has.  A column the header lacks is absent from the      *)
(* record; a field a short row lacks is None in Python, and every use of   *)
(* a row in the script treats None like the absent column.                 *)
(***************************************************************************)
\* (row.get(column) or "")
GetOrEmpty(row, column) == IF column \in DOMAIN row THEN row[column] ELSE <<>>

\* int(row["VariationID"]) under try/except: ok is FALSE on KeyError,
\* TypeError and ValueError
RowVariationId(row) ==
    IF "VariationID" \in DOMAIN row
    THEN IntFromStr(row["VariationID"])
    ELSE [ok |-> FALSE, v |-> 0]

\* the scan without the membership test of line 120
NotWanted_Never(variation_id) == FALSE

\* variation_id not in ids, line 120
NotWanted(variation_id) == variation_id \notin ids

\* the assembly filter on the field as read, without strip()
AssemblyRejects_NoStrip(row) ==
    LET assembly == GetOrEmpty(row, "Assembly")
    IN  args_assembly # <<>> /\ assembly # <<>> /\ assembly # args_assembly

\* args.assembly and assembly and assembly != args.assembly, lines 123-124
AssemblyRejects(row) ==
    LET assembly == Strip(GetOrEmpty(row, "Assembly"))
    IN  args_assembly # <<>> /\ assembly # <<>> /\ assembly # args_assembly

\* the four coordinate fields as read at lines 127-130
Coordinates(row) ==
    [chrom |-> Strip(GetOrEmpty(row, "Chromosome")),
     pos |-> Strip(GetOrEmpty(row, "PositionVCF")),
     ref |-> Strip(GetOrEmpty(row, "ReferenceAlleleVCF")),
     alt |-> Strip(GetOrEmpty(row, "AlternateAlleleVCF"))]

\* line 132
AnyMissing(c) ==
    _is_missing(c.chrom) \/ _is_missing(c.pos) \/ _is_missing(c.ref)
        \/ _is_missing(c.alt)

\* f"{chrom}_{pos}_{ref.upper()}_{alt.upper()}", line 139
KeyOf(c) ==
    c.chrom \o <<95>> \o c.pos \o <<95>> \o Upper(c.ref) \o <<95>> \o Upper(c.alt)

\* (chrom, pos, ref.upper(), alt.upper()), line 140
TupleOf(c) == <<c.chrom, c.pos, Upper(c.ref), Upper(c.alt)>>

\* The statement that ends the loop body for this row: the `continue` taken,
\* or "keep" when the body runs to line 141.
RowVerdict(row) ==
    LET id == RowVariationId(row)
        c == Coordinates(row)
    IN  IF ~id.ok THEN "bad_id"
        ELSE IF NotWanted(id.v) THEN "not_wanted"
        ELSE IF AssemblyRejects(row) THEN "assembly"
        ELSE IF AnyMissing(c) THEN "missing"
        ELSE IF ~IsDigit(c.pos) THEN "not_digits"
        ELSE IF ~(_is_snv_allele(c.ref) /\ _is_snv_allele(c.alt)) THEN "not_snv"
        ELSE "keep"

\* candidates[variation_id] = {key: tuple}: the map of the identifier is
\* replaced instead of extended
PutCandidate_Replace(cands, variation_id, key, tuple) ==
    [i \in DOMAIN cands \cup {variation_id} |->
        IF i = variation_id THEN [k \in {key} |-> tuple] ELSE cands[i]]

\* candidates.setdefault(variation_id, {})[key] = tuple, line 140
PutCandidate(cands, variation_id, key, tuple) ==
    LET key_map == IF variation_id \in DOMAIN cands THEN cands[variation_id] ELSE <<>>
        new_map == [k \in DOMAIN key_map \cup {key} |->
                        IF k = key THEN tuple ELSE key_map[k]]
    IN  [i \in DOMAIN cands \cup {variation_id} |->
            IF i = variation_id THEN new_map ELSE cands[i]]

\* the effect of one iteration of the row loop on candidates
ScanStep(cands, row) ==
    IF RowVerdict(row) = "keep"
    THEN PutCandidate(cands, RowVariationId(row).v, KeyOf(Coordinates(row)),
                      TupleOf(Coordinates(row)))
    ELSE cands

\* the row loop over a whole corpus, starting from cands
RECURSIVE ScanAll(_, _)
ScanAll(cands, rows) ==
    IF rows = <<>> THEN cands ELSE ScanAll(ScanStep(cands, Head(rows)), Tail(rows))

(***************************************************************************)
(* The partition, lines 163-171.                                           *)
(***************************************************************************)
\* sorted(candidates.items()): the identifiers are distinct ints, so the
\* items are ordered by identifier alone
RECURSIVE SortedIds(_)
SortedIds(S) ==
    IF S = {} THEN <<>>
    ELSE LET m == CHOOSE x \in S : \A y \in S : x <= y
         IN  <<m>> \o SortedIds(S \ {m})

\* the keys in descending order, sorted(..., reverse=True)
RECURSIVE SortedKeys_Descending(_)
SortedKeys_Descending(S) ==
    IF S = {} THEN <<>>
    ELSE LET m == CHOOSE x \in S : \A y \in S \ {x} : StrLess(y, x)
         IN  <<m>> \o SortedKeys_Descending(S \ {m})

\* the keys of sorted(key_map.items()): the keys are distinct strs, so the
\* items are ordered by key alone
RECURSIVE SortedKeys(_)
SortedKeys(S) ==
    IF S = {} THEN <<>>
    ELSE LET m == CHOOSE x \in S : \A y \in S \ {x} : StrLess(x, y)
         IN  <<m>> \o SortedKeys(S \ {m})

UniqueRow(variation_id, key, t) ==
    [pickle_ID |-> variation_id, Chromosome |-> t[1], PositionVCF |-> t[2],
     ReferenceAlleleVCF |-> t[3], AlternateAlleleVCF |-> t[4],
     chr_pos_ref_alt |-> key]

AmbiguousRow(variation_id, key, t, n) ==
    [pickle_ID |-> variation_id, Chromosome |-> t[1], PositionVCF |-> t[2],
     ReferenceAlleleVCF |-> t[3], AlternateAlleleVCF |-> t[4],
     chr_pos_ref_alt |-> key, n_candidates |-> n]

\* the loop body without its first branch: every item goes to the
\* ambiguous table
EmitRows_AllAmbiguous(variation_id, key_map) ==
    LET keys == SortedKeys(DOMAIN key_map)
    IN  [out |-> <<>>,
         amb |-> [j \in 1..Len(keys) |->
                     AmbiguousRow(variation_id, keys[j], key_map[keys[j]],
                                  Cardinality(DOMAIN key_map))]]

\* the loop body with n_candidates counting the rows written so far for
\* the item instead of len(key_map)
EmitRows_RunningCount(variation_id, key_map) ==
    IF Cardinality(DOMAIN key_map) = 1
    THEN LET only_key == CHOOSE k \in DOMAIN key_map : TRUE
         IN  [out |-> <<UniqueRow(variation_id, only_key, key_map[only_key])>>,
              amb |-> <<>>]
    ELSE LET keys == SortedKeys(DOMAIN key_map)
         IN  [out |-> <<>>,
              amb |-> [j \in 1..Len(keys) |->
                          AmbiguousRow(variation_id, keys[j], key_map[keys[j]], j)]]

\* The body of the loop of line 163 for one item: the rows it writes to
\* each table.
EmitRows(variation_id, key_map) ==
    IF Cardinality(DOMAIN key_map) = 1
    THEN LET only_key == CHOOSE k \in DOMAIN key_map : TRUE
         IN  [out |-> <<UniqueRow(variation_id, only_key, key_map[only_key])>>,
              amb |-> <<>>]
    ELSE LET keys == SortedKeys(DOMAIN key_map)
         IN  [out |-> <<>>,
              amb |-> [j \in 1..Len(keys) |->
                          AmbiguousRow(variation_id, keys[j], key_map[keys[j]],
                                       Cardinality(DOMAIN key_map))]]

(***************************************************************************)
(* The reader of the sample corpus, lines 92-103.                          *)
(***************************************************************************)
\* while len(ids) <= args.max_ids
ReaderContinues_OffByOne == Cardinality(ids) <= max_ids

\* while len(ids) < args.max_ids
ReaderContinues == Cardinality(ids) < max_ids

\* lines 99-103 on one unpickled object: add, the identifiers it adds to
\* ids, and escapes, whether int() raises an exception that the handler of
\* line 102 does not catch and that therefore ends main()
IdsOfObject(obj) ==
    IF obj.type = "dict" /\ "ID" \in DOMAIN obj.value
    THEN LET r == PyInt(obj.value["ID"])
         IN  [add |-> IF r.ok THEN {r.v} ELSE {},
              escapes |-> r.exc = "BaseException"]
    ELSE [add |-> {}, escapes |-> FALSE]

(***************************************************************************)
(* The steps of main().                                                    *)
(***************************************************************************)
\* one iteration of the while loop in which pickle.load returns an object;
\* an exception that line 102 does not catch leaves main() at line 101
ReadRecord ==
    /\ pc = "read"
    /\ ReaderContinues
    /\ f_pos < Len(pickle_file)
    /\ f_pos' = f_pos + 1
    /\ ids' = ids \cup IdsOfObject(pickle_file[f_pos + 1]).add
    /\ pc' = IF IdsOfObject(pickle_file[f_pos + 1]).escapes THEN "raised" ELSE pc
    /\ UNCHANGED <<pickle_file, clinvar_file, max_ids, args_assembly, gz_pos,
                   verdict, seen_rows, kept_rows, candidates, items, item_pos,
                   out_rows, amb_rows, unique_written, ambiguous_written>>

\* the while loop ends: its condition is false, or pickle.load raises
\* EOFError; lines 105-113 follow
ReadDone ==
    /\ pc = "read"
    /\ ~ReaderContinues \/ f_pos = Len(pickle_file)
    /\ pc' = "scan"
    /\ candidates' = <<>>
    /\ seen_rows' = 0
    /\ kept_rows' = 0
    /\ UNCHANGED <<pickle_file, clinvar_file, max_ids, args_assembly, f_pos, ids,
                   gz_pos, verdict, items, item_pos, out_rows, amb_rows,
                   unique_written, ambiguous_written>>

\* one iteration of `for row in reader`, lines 114-141
ScanRow ==
    /\ pc = "scan"
    /\ gz_pos < Len(clinvar_file)
    /\ LET row == clinvar_file[gz_pos + 1]
       IN  /\ gz_pos' = gz_pos + 1
           /\ seen_rows' = seen_rows + 1
           /\ verdict' = RowVerdict(row)
           /\ candidates' = ScanStep(candidates, row)
           /\ kept_rows' = IF RowVerdict(row) = "keep" THEN kept_rows + 1 ELSE kept_rows
    /\ UNCHANGED <<pickle_file, clinvar_file, max_ids, args_assembly, pc, f_pos,
                   ids, items, item_pos, out_rows, amb_rows, unique_written,
                   ambiguous_written>>

\* the reader is exhausted; lines 143-163 open the tables and sort the items
ScanDone ==
    /\ pc = "scan"
    /\ gz_pos = Len(clinvar_file)
    /\ pc' = "write"
    /\ items' = SortedIds(DOMAIN candidates)
    /\ item_pos' = 0
    /\ out_rows' = <<>>
    /\ amb_rows' = <<>>
    /\ unique_written' = 0
    /\ ambiguous_written' = 0
    /\ UNCHANGED <<pickle_file, clinvar_file, max_ids, args_assembly, f_pos, ids,
                   gz_pos, verdict, seen_rows, kept_rows, candidates>>

\* one iteration of the loop of line 163
WriteItem ==
    /\ pc = "write"
    /\ item_pos < Len(items)
    /\ LET variation_id == items[item_pos + 1]
           rows == EmitRows(variation_id, candidates[variation_id])
       IN  /\ out_rows' = out_rows \o rows.out
           /\ amb_rows' = amb_rows \o rows.amb
           /\ unique_written' = unique_written + Len(rows.out)
           /\ ambiguous_written' = ambiguous_written + Len(rows.amb)
    /\ item_pos' = item_pos + 1
    /\ UNCHANGED <<pickle_file, clinvar_file, max_ids, args_assembly, pc, f_pos,
                   ids, gz_pos, verdict, seen_rows, kept_rows, candidates, items>>

\* the loop of line 163 ends; the tables are closed and the counts printed
WriteDone ==
    /\ pc = "write"
    /\ item_pos = Len(items)
    /\ pc' = "done"
    /\ UNCHANGED <<pickle_file, clinvar_file, max_ids, args_assembly, f_pos, ids,
                   gz_pos, verdict, seen_rows, kept_rows, candidates, items,
                   item_pos, out_rows, amb_rows, unique_written,
                   ambiguous_written>>

Next == ReadRecord \/ ReadDone \/ ScanRow \/ ScanDone \/ WriteItem \/ WriteDone

(***************************************************************************)
(* Inputs.                                                                 *)
(***************************************************************************)
GRCh38 == <<71, 82, 67, 104, 51, 56>>
GRCh37 == <<71, 82, 67, 104, 51, 55>>

\* a pickled dict with an "ID" entry
WithId(x) ==
    [type |-> "dict",
     value |-> [ID |-> x, Pathogenicity |-> [type |-> "int", v |-> 1]]]

\* Objects of the sample corpus, by the value under "ID": the ints 2, 10
\* and -1; the str "\xa0٢ " (a no-break space, ARABIC-INDIC DIGIT TWO
\* and a space: int() gives 2); the bytes b"1_0" (10); the str "\xb2"
\* (SUPERSCRIPT TWO: a digit that int() refuses); the float 2.5 (2); True
\* (1); an object with __index__, such as numpy.int64(10) (10); an object
\* whose __int__ raises SystemExit; None; then a dict without "ID" and an
\* object that is not a dict.
SampleObjects ==
    { WithId([type |-> "int", v |-> 2]),
      WithId([type |-> "int", v |-> 10]),
      WithId([type |-> "int", v |-> 0 - 1]),
      WithId([type |-> "str", s |-> <<160, 1634, 32>>]),
      WithId([type |-> "bytes", b |-> <<49, 95, 48>>]),
      WithId([type |-> "str", s |-> <<178>>]),
      WithId([type |-> "float", finite |-> TRUE, num |-> 5, den |-> 2]),
      WithId([type |-> "bool", truth |-> TRUE]),
      WithId([type |-> "object", converts |-> TRUE, v |-> 10]),
      WithId([type |-> "object", converts |-> FALSE, raises |-> "BaseException"]),
      WithId([type |-> "NoneType"]),
      [type |-> "dict", value |-> [Pathogenicity |-> [type |-> "int", v |-> 0]]],
      [type |-> "list"] }

\* the sample corpus of the filter and partition runs, {"ID": 2} and
\* {"ID": "10"}: ids = {2, 10}
FixedPickle ==
    << WithId([type |-> "int", v |-> 2]),
       WithId([type |-> "str", s |-> <<49, 48>>]) >>

Row(vid, asm, chrom, pos, ref, alt) ==
    [VariationID |-> vid, Assembly |-> asm, Chromosome |-> chrom,
     PositionVCF |-> pos, ReferenceAlleleVCF |-> ref, AlternateAlleleVCF |-> alt]

\* the row without one of its columns
Without(row, column) == [c \in DOMAIN row \ {column} |-> row[c]]

Columns ==
    {"VariationID", "Assembly", "Chromosome", "PositionVCF",
     "ReferenceAlleleVCF", "AlternateAlleleVCF"}

\* VariationID "2", Assembly "GRCh38", Chromosome "1", PositionVCF "100",
\* ReferenceAlleleVCF "A", AlternateAlleleVCF "G"
GoodRow == Row(<<50>>, GRCh38, <<49>>, <<49, 48, 48>>, <<65>>, <<71>>)

\* Rows of the filter runs: every row is for a wanted identifier unless its
\* VariationID says otherwise, and each fails at most one filter.  After
\* GoodRow, in order: Assembly "GRCh37"; Assembly "\x0bGRCh38\xa0" (padded
\* with a vertical tab and a no-break space); Assembly " "; Assembly "";
\* a row with padded fields and lowercase alleles, VariationID " 10",
\* Chromosome " X", PositionVCF "7 ", alleles "c" and " t"; Chromosome
\* "NaN"; PositionVCF "n/a"; PositionVCF "-5"; PositionVCF "1\xb2" (a one
\* and SUPERSCRIPT TWO); ReferenceAlleleVCF "AG"; AlternateAlleleVCF "N";
\* VariationID "x"; VariationID "3"; then GoodRow without each column.
FilterRows ==
    { GoodRow,
      Row(<<50>>, GRCh37, <<49>>, <<50, 48, 48>>, <<65>>, <<71>>),
      Row(<<50>>, <<11, 71, 82, 67, 104, 51, 56, 160>>, <<49>>, <<51, 48, 48>>,
          <<65>>, <<71>>),
      Row(<<50>>, <<32>>, <<49>>, <<52, 48, 48>>, <<65>>, <<71>>),
      Row(<<50>>, <<>>, <<49>>, <<53, 48, 48>>, <<65>>, <<71>>),
      Row(<<32, 49, 48>>, GRCh38, <<32, 88>>, <<55, 32>>, <<99>>, <<32, 116>>),
      Row(<<50>>, GRCh38, <<78, 97, 78>>, <<56>>, <<65>>, <<71>>),
      Row(<<50>>, GRCh38, <<49>>, <<110, 47, 97>>, <<65>>, <<71>>),
      Row(<<50>>, GRCh38, <<49>>, <<45, 53>>, <<65>>, <<71>>),
      Row(<<50>>, GRCh38, <<49>>, <<49, 178>>, <<65>>, <<71>>),
      Row(<<50>>, GRCh38, <<49>>, <<57>>, <<65, 71>>, <<71>>),
      Row(<<50>>, GRCh38, <<49>>, <<57>>, <<65>>, <<78>>),
      Row(<<120>>, GRCh38, <<49>>, <<57>>, <<65>>, <<71>>),
      Row(<<51>>, GRCh38, <<49>>, <<57>>, <<65>>, <<71>>) }
    \cup { Without(GoodRow, c) : c \in Columns }

\* Rows of the partition runs: all pass the filters.  Identifier 2 has up
\* to three distinct keys (1_100_A_G, 1_99_A_G and 1_100_A_T), the first
\* reached by two rows, one with alleles "a" and "g"; identifier 10 has up
\* to two (X_5_C_T and X_5_C_A); identifier 3 is not wanted.
PartitionRows ==
    { GoodRow,
      Row(<<50>>, GRCh38, <<49>>, <<49, 48, 48>>, <<97>>, <<103>>),
      Row(<<50>>, GRCh38, <<49>>, <<57, 57>>, <<65>>, <<71>>),
      Row(<<50>>, <<>>, <<49>>, <<49, 48, 48>>, <<65>>, <<84>>),
      Row(<<49, 48>>, GRCh38, <<88>>, <<53>>, <<67>>, <<84>>),
      Row(<<49, 48>>, GRCh38, <<88>>, <<53>>, <<67>>, <<65>>),
      Row(<<51>>, GRCh38, <<49>>, <<57>>, <<65>>, <<71>>) }

\* the reference corpus of the reader runs: valid rows for the identifiers
\* 2, 10 and -1, and two rows for 1 that the filters reject, one of
\* assembly GRCh37 and one with the allele "AG"
FixedClinvar ==
    << GoodRow,
       Row(<<49, 48>>, GRCh38, <<88>>, <<53>>, <<67>>, <<84>>),
       Row(<<45, 49>>, GRCh38, <<49>>, <<57>>, <<65>>, <<71>>),
       Row(<<49>>, GRCh37, <<49>>, <<57>>, <<65>>, <<71>>),
       Row(<<49>>, GRCh38, <<49>>, <<57>>, <<65, 71>>, <<71>>) >>

\* the sequences over S of length at most n
SeqsUpTo(S, n) == UNION {[1..k -> S] : k \in 0..n}

(***************************************************************************)
(* Initial states and specifications.                                      *)
(***************************************************************************)
\* the state of main() at line 92, for given inputs
Start(pkl, clinvar, max, assembly) ==
    /\ pickle_file = pkl
    /\ clinvar_file = clinvar
    /\ max_ids = max
    /\ args_assembly = assembly
    /\ pc = "read"
    /\ f_pos = 0
    /\ ids = {}
    /\ gz_pos = 0
    /\ verdict = "none"
    /\ seen_rows = 0
    /\ kept_rows = 0
    /\ candidates = <<>>
    /\ items = <<>>
    /\ item_pos = 0
    /\ out_rows = <<>>
    /\ amb_rows = <<>>
    /\ unique_written = 0
    /\ ambiguous_written = 0

\* reader runs: any sample corpus, any --max-ids
InitReader ==
    \E pkl \in SeqsUpTo(SampleObjects, MaxRecords), max \in 0..MaxIdsArg :
        Start(pkl, FixedClinvar, max, GRCh38)

\* filter runs: any reference corpus over FilterRows, with and without
\* an assembly filter
InitFilter ==
    \E clinvar \in SeqsUpTo(FilterRows, MaxFilterRows), assembly \in {<<>>, GRCh38} :
        Start(FixedPickle, clinvar, MaxIdsArg, assembly)

\* partition runs: any reference corpus over PartitionRows
InitPartition ==
    \E clinvar \in SeqsUpTo(PartitionRows, MaxPartRows) :
        Start(FixedPickle, clinvar, MaxIdsArg, GRCh38)

Init == InitReader \/ InitFilter \/ InitPartition

Spec == Init /\ [][Next]_vars

SpecReader == InitReader /\ [][Next]_vars

SpecFilter == InitFilter /\ [][Next]_vars

SpecPartition == InitPartition /\ [][Next]_vars

TypeOK ==
    /\ pc \in {"read", "scan", "write", "done", "raised"}
    /\ f_pos \in 0..Len(pickle_file)
    /\ gz_pos \in 0..Len(clinvar_file)
    /\ ids \subseteq Int
    /\ seen_rows = gz_pos
    /\ item_pos \in 0..Len(items)

(***************************************************************************)
(* Vocabulary of the properties, stated on the inputs and the outputs.     *)
(***************************************************************************)
\* the positions of the rows of a table that carry identifier i
RowsOf(table, i) == {j \in 1..Len(table) : table[j].pickle_ID = i}

\* the field of a row as text, empty when the column is missing
Field(row, column) == IF column \in DOMAIN row THEN row[column] ELSE <<>>

Trimmed(row, column) == Strip(Field(row, column))

MissingWords ==
    {<<>>, <<110, 97>>, <<110, 47, 97>>, <<110, 97, 110>>, <<110, 111, 110, 101>>}

Nucleotides == {<<65>>, <<67>>, <<71>>, <<84>>}

\* the row's VariationID parses to identifier i
ParsesTo(row, i) ==
    /\ "VariationID" \in DOMAIN row
    /\ IntFromStr(row["VariationID"]).ok
    /\ IntFromStr(row["VariationID"]).v = i

\* the row is for an identifier of the wanted set
ForWanted(row) == \E i \in ids : ParsesTo(row, i)

\* the row passes the assembly filter (on the trimmed field)
AssemblyAccepts(row) ==
    \/ args_assembly = <<>>
    \/ Trimmed(row, "Assembly") = <<>>
    \/ Trimmed(row, "Assembly") = args_assembly

\* the row passes the filters on its four coordinate fields, the position
\* being tested as str.isdigit() tests it
CoordinatesValid(row) ==
    /\ \A c \in {"Chromosome", "PositionVCF", "ReferenceAlleleVCF",
                 "AlternateAlleleVCF"} : Lower(Trimmed(row, c)) \notin MissingWords
    /\ Trimmed(row, "PositionVCF") # <<>>
    /\ \A n \in 1..Len(Trimmed(row, "PositionVCF")) :
            Trimmed(row, "PositionVCF")[n] \in Digits
    /\ Upper(Trimmed(row, "ReferenceAlleleVCF")) \in Nucleotides
    /\ Upper(Trimmed(row, "AlternateAlleleVCF")) \in Nucleotides

\* the row's position, trimmed, is made of decimal digits only
PositionAllDecimal(row) ==
    /\ Trimmed(row, "PositionVCF") # <<>>
    /\ \A n \in 1..Len(Trimmed(row, "PositionVCF")) :
            Trimmed(row, "PositionVCF")[n] \in DecimalDigits

\* the row is for wanted identifier i and passes every filter as the
\* program applies it
Survives(row, i) ==
    i \in ids /\ ParsesTo(row, i) /\ AssemblyAccepts(row) /\ CoordinatesValid(row)

\* "{chrom}_{pos}_{ref}_{alt}" of a stored tuple
Render(t) == t[1] \o <<95>> \o t[2] \o <<95>> \o t[3] \o <<95>> \o t[4]

\* the normalized coordinate tuple of a row
Normalized(row) ==
    <<Trimmed(row, "Chromosome"), Trimmed(row, "PositionVCF"),
      Upper(Trimmed(row, "ReferenceAlleleVCF")),
      Upper(Trimmed(row, "AlternateAlleleVCF"))>>

\* the row the loop handled last
LastRow == clinvar_file[gz_pos]

\* the reference corpus in the order perm
Permuted(perm) == [j \in 1..Len(clinvar_file) |-> clinvar_file[perm[j]]]

\* the object holds an "ID" that int() accepts
Coercible(obj) ==
    obj.type = "dict" /\ "ID" \in DOMAIN obj.value /\ PyInt(obj.value["ID"]).ok

\* the object holds an "ID" whose conversion raises an exception that is
\* not an Exception
Uncaught(obj) ==
    /\ obj.type = "dict" /\ "ID" \in DOMAIN obj.value
    /\ obj.value["ID"].type = "object"
    /\ ~obj.value["ID"].converts
    /\ obj.value["ID"].raises = "BaseException"

\* the identifiers of the first n objects of the sample corpus
IdsAmong(n) ==
    {PyInt(pickle_file[j].value["ID"]).v :
        j \in {m \in 1..n : Coercible(pickle_file[m])}}

(***************************************************************************)
(* C1.  When the run is done, every identifier whose candidate map holds   *)
(* exactly one key has exactly one row in the unique table, and that row   *)
(* carries the four fields of the key's tuple and the key; it has no row   *)
(* in the ambiguous table.                                                 *)
(***************************************************************************)
C1_OneKeyOneUniqueRow ==
    pc = "done" =>
        \A i \in DOMAIN candidates :
            Cardinality(DOMAIN candidates[i]) = 1 =>
                /\ Cardinality(RowsOf(out_rows, i)) = 1
                /\ \A j \in RowsOf(out_rows, i), k \in DOMAIN candidates[i] :
                        /\ out_rows[j].chr_pos_ref_alt = k
                        /\ <<out_rows[j].Chromosome, out_rows[j].PositionVCF,
                             out_rows[j].ReferenceAlleleVCF,
                             out_rows[j].AlternateAlleleVCF>> = candidates[i][k]
                /\ RowsOf(amb_rows, i) = {}

\* identifier 2 was kept from two rows that normalize to one key, and has
\* its row in the unique table
C1_Witness ==
    /\ pc = "done"
    /\ 2 \in DOMAIN candidates
    /\ Cardinality(DOMAIN candidates[2]) = 1
    /\ Cardinality({j \in 1..Len(clinvar_file) : Survives(clinvar_file[j], 2)}) >= 2
    /\ Cardinality({clinvar_file[j] : j \in 1..Len(clinvar_file)}) >= 2
    /\ RowsOf(out_rows, 2) # {}

(***************************************************************************)
(* C2.  When the run is done, every identifier whose candidate map holds   *)
(* N >= 2 keys has exactly N rows in the ambiguous table, exactly one for  *)
(* each key, each with n_candidates = N; it has no row in the unique       *)
(* table.                                                                  *)
(***************************************************************************)
C2_NKeysNAmbiguousRows ==
    pc = "done" =>
        \A i \in DOMAIN candidates :
            LET N == Cardinality(DOMAIN candidates[i])
            IN  N >= 2 =>
                    /\ Cardinality(RowsOf(amb_rows, i)) = N
                    /\ \A k \in DOMAIN candidates[i] :
                          Cardinality({j \in RowsOf(amb_rows, i) :
                                          amb_rows[j].chr_pos_ref_alt = k}) = 1
                    /\ \A j \in RowsOf(amb_rows, i) : amb_rows[j].n_candidates = N
                    /\ RowsOf(out_rows, i) = {}

\* an identifier with three keys has its rows in the ambiguous table
C2_Witness ==
    /\ pc = "done"
    /\ \E i \in DOMAIN candidates :
          /\ Cardinality(DOMAIN candidates[i]) = 3
          /\ Cardinality(RowsOf(amb_rows, i)) = 3

(***************************************************************************)
(* C3.  Every identifier of a row of either table is in the wanted set     *)
(* and is the identifier of at least one reference row that passed all     *)
(* the filters.                                                            *)
(***************************************************************************)
C3_OnlyWantedSurvivors ==
    \A i \in {out_rows[j].pickle_ID : j \in 1..Len(out_rows)}
             \cup {amb_rows[j].pickle_ID : j \in 1..Len(amb_rows)} :
        /\ i \in ids
        /\ \E j \in 1..Len(clinvar_file) : Survives(clinvar_file[j], i)

\* the run wrote a row for one wanted identifier and none for another,
\* whose rows the filters all rejected, nor for an identifier that is not
\* wanted although its row passes the filters
C3_Witness ==
    /\ pc = "done"
    /\ Len(out_rows) + Len(amb_rows) >= 1
    /\ \E j \in 1..Len(clinvar_file) :
          /\ "VariationID" \in DOMAIN clinvar_file[j]
          /\ IntFromStr(clinvar_file[j]["VariationID"]).ok
          /\ ~ForWanted(clinvar_file[j])
          /\ AssemblyAccepts(clinvar_file[j]) /\ CoordinatesValid(clinvar_file[j])
    /\ \E i \in ids :
          /\ \E j \in 1..Len(clinvar_file) :
                ParsesTo(clinvar_file[j], i) /\ ~AssemblyAccepts(clinvar_file[j])
          /\ \E j \in 1..Len(clinvar_file) :
                ParsesTo(clinvar_file[j], i) /\ ~CoordinatesValid(clinvar_file[j])
          /\ \A j \in 1..Len(clinvar_file) : ~Survives(clinvar_file[j], i)
          /\ RowsOf(out_rows, i) = {} /\ RowsOf(amb_rows, i) = {}

(***************************************************************************)
(* C4.  When the run is done, the final candidates equals the result of    *)
(* scanning the same rows in any other order.                              *)
(***************************************************************************)
C4_ScanOrderIndependent ==
    pc = "done" =>
        \A perm \in Permutations(1..Len(clinvar_file)) :
            ScanAll(<<>>, Permuted(perm)) = candidates

\* a corpus of two different rows kept for one identifier under different
\* keys
C4_Witness ==
    /\ pc = "done"
    /\ Len(clinvar_file) >= 2
    /\ \E i \in DOMAIN candidates : Cardinality(DOMAIN candidates[i]) >= 2

(***************************************************************************)
(* C5.  The rows of the unique table are in strictly ascending order of    *)
(* identifier; the rows of the ambiguous table are in ascending order of   *)
(* identifier and, within one identifier, in strictly ascending string     *)
(* order of the key.                                                       *)
(***************************************************************************)
C5_TablesSorted ==
    /\ \A j \in 1..(Len(out_rows) - 1) :
          out_rows[j].pickle_ID < out_rows[j + 1].pickle_ID
    /\ \A j \in 1..(Len(amb_rows) - 1) :
          \/ amb_rows[j].pickle_ID < amb_rows[j + 1].pickle_ID
          \/ /\ amb_rows[j].pickle_ID = amb_rows[j + 1].pickle_ID
             /\ StrLess(amb_rows[j].chr_pos_ref_alt, amb_rows[j + 1].chr_pos_ref_alt)

\* the ambiguous table holds the rows of two identifiers, scanned with the
\* larger identifier first and, for one identifier, the larger key first
C5_Witness ==
    /\ pc = "done"
    /\ Len(amb_rows) = 4
    /\ amb_rows[1].pickle_ID # amb_rows[4].pickle_ID
    /\ ParsesTo(clinvar_file[1], amb_rows[4].pickle_ID)
    /\ \E a, b \in 1..Len(clinvar_file) :
          /\ a < b
          /\ ParsesTo(clinvar_file[a], 2) /\ ParsesTo(clinvar_file[b], 2)
          /\ StrLess(Render(Normalized(clinvar_file[b])),
                     Render(Normalized(clinvar_file[a])))

(***************************************************************************)
(* C6, as stated.  A row for a wanted identifier is rejected by the        *)
(* assembly filter exactly when the configured assembly is non-empty, the  *)
(* row's assembly field is non-empty, and the two differ.                  *)
(***************************************************************************)
C6_AssemblyFilterOnField ==
    (gz_pos >= 1 /\ ForWanted(LastRow)) =>
        (verdict = "assembly" <=>
            /\ args_assembly # <<>>
            /\ Field(LastRow, "Assembly") # <<>>
            /\ Field(LastRow, "Assembly") # args_assembly)

(***************************************************************************)
(* C6, amended.  A row for a wanted identifier is rejected by the assembly *)
(* filter exactly when the configured assembly is non-empty and the row's  *)
(* assembly field, with surrounding whitespace removed, is non-empty and   *)
(* differs from the configured assembly.                                   *)
(***************************************************************************)
C6_AssemblyFilterOnTrimmedField ==
    (gz_pos >= 1 /\ ForWanted(LastRow)) =>
        (verdict = "assembly" <=>
            /\ args_assembly # <<>>
            /\ Trimmed(LastRow, "Assembly") # <<>>
            /\ Trimmed(LastRow, "Assembly") # args_assembly)

\* the filter is configured and has rejected the last row
C6_Witness ==
    /\ gz_pos >= 1
    /\ ForWanted(LastRow)
    /\ args_assembly # <<>>
    /\ verdict = "assembly"

(***************************************************************************)
(* C7, as stated.  The iteration on a row that lacks any one of the six    *)
(* required columns leaves candidates and kept_rows unchanged and moves    *)
(* to the next row.                                                        *)
(***************************************************************************)
C7_MissingColumnSkips ==
    [][(/\ pc = "scan"
        /\ gz_pos < Len(clinvar_file)
        /\ \E c \in Columns : c \notin DOMAIN clinvar_file[gz_pos + 1])
       => (/\ candidates' = candidates
           /\ kept_rows' = kept_rows
           /\ pc' = "scan"
           /\ gz_pos' = gz_pos + 1)]_vars

(***************************************************************************)
(* C7, amended.  The iteration on a row that lacks any one of VariationID, *)
(* Chromosome, PositionVCF, ReferenceAlleleVCF and AlternateAlleleVCF      *)
(* leaves candidates and kept_rows unchanged and moves to the next row.    *)
(***************************************************************************)
C7_MissingCoordinateColumnSkips ==
    [][(/\ pc = "scan"
        /\ gz_pos < Len(clinvar_file)
        /\ \E c \in Columns \ {"Assembly"} : c \notin DOMAIN clinvar_file[gz_pos + 1])
       => (/\ candidates' = candidates
           /\ kept_rows' = kept_rows
           /\ pc' = "scan"
           /\ gz_pos' = gz_pos + 1)]_vars

\* the loop has just handled a row for a wanted identifier that lacks one
\* of the coordinate columns, after it had kept another row
C7_Witness ==
    /\ pc = "scan"
    /\ gz_pos >= 1
    /\ ForWanted(LastRow)
    /\ \E c \in Columns \ {"Assembly", "VariationID"} : c \notin DOMAIN LastRow
    /\ kept_rows >= 1

(***************************************************************************)
(* C8.  Every element of the wanted set is a non-negative integer.         *)
(***************************************************************************)
C8_IdsNonNegative == \A i \in ids : i >= 0

(***************************************************************************)
(* C9, as stated.  At every point the wanted set holds at most max_ids     *)
(* identifiers and is exactly the set of the coerced IDs of the objects    *)
(* read so far; the last object was read while the set held fewer than     *)
(* max_ids identifiers; the reader has stopped only with max_ids           *)
(* identifiers or at the end of the stream, after at most as many reads    *)
(* as the stream has objects.                                              *)
(***************************************************************************)
C9_ReaderBounded ==
    /\ Cardinality(ids) <= max_ids
    /\ ids = IdsAmong(f_pos)
    /\ f_pos >= 1 => Cardinality(IdsAmong(f_pos - 1)) < max_ids
    /\ pc # "read" => Cardinality(ids) = max_ids \/ f_pos = Len(pickle_file)
    /\ f_pos <= Len(pickle_file)

(***************************************************************************)
(* C9 apart from the uncaught exception: the statement holds of a reader   *)
(* that stops normally.  A record whose ID raises, on conversion, an       *)
(* exception that is not an Exception stops the reader there and ends the  *)
(* run: nothing is added, no row is scanned and no table is written.  No   *)
(* such record is passed over.                                             *)
(***************************************************************************)
C9_ReaderBoundedUnlessRaised ==
    /\ Cardinality(ids) <= max_ids
    /\ ids = IdsAmong(f_pos)
    /\ f_pos >= 1 => Cardinality(IdsAmong(f_pos - 1)) < max_ids
    /\ pc \notin {"read", "raised"} =>
            Cardinality(ids) = max_ids \/ f_pos = Len(pickle_file)
    /\ pc = "raised" =>
            /\ f_pos >= 1
            /\ Uncaught(pickle_file[f_pos])
            /\ gz_pos = 0 /\ candidates = <<>>
            /\ out_rows = <<>> /\ amb_rows = <<>>
    /\ \A j \in 1..f_pos : Uncaught(pickle_file[j]) => j = f_pos /\ pc = "raised"
    /\ f_pos <= Len(pickle_file)

\* the reader stopped at max_ids identifiers before the end of the stream,
\* having read an object that added nothing and an identifier twice
C9_Witness ==
    /\ pc \notin {"read", "raised"}
    /\ max_ids >= 1
    /\ Cardinality(ids) = max_ids
    /\ f_pos < Len(pickle_file)
    /\ f_pos > Cardinality(ids)

(***************************************************************************)
(* C10, as stated.  Every key of the candidate map of identifier i is the  *)
(* rendering of the normalized coordinates of a row already scanned that   *)
(* is for i, with i wanted, and that passed every filter: assembly, the    *)
(* four fields non-missing, the position made of decimal digits only, REF  *)
(* and ALT each a single A/C/G/T.  The tuple stored under it has single    *)
(* uppercase nucleotides as REF and ALT and renders to the key.  No step   *)
(* removes or changes an entry.  A decimal digit is taken here in the      *)
(* widest sense, any character of a decimal script that int() reads.       *)
(***************************************************************************)
C10_CandidatesPassedEveryFilter ==
    /\ [](\A i \in DOMAIN candidates :
            \A k \in DOMAIN candidates[i] :
                /\ i \in ids
                /\ \E j \in 1..gz_pos :
                      /\ Survives(clinvar_file[j], i)
                      /\ PositionAllDecimal(clinvar_file[j])
                      /\ Render(Normalized(clinvar_file[j])) = k
                      /\ Normalized(clinvar_file[j]) = candidates[i][k]
                /\ candidates[i][k][3] \in Nucleotides
                /\ candidates[i][k][4] \in Nucleotides
                /\ Render(candidates[i][k]) = k)
    /\ [][\A i \in DOMAIN candidates :
            /\ i \in DOMAIN candidates'
            /\ \A k \in DOMAIN candidates[i] :
                  /\ k \in DOMAIN candidates'[i]
                  /\ candidates'[i][k] = candidates[i][k]]_vars

(***************************************************************************)
(* C10 with the position test the program makes, str.isdigit(), which      *)
(* also holds for superscript, circled and other digit characters that     *)
(* are not decimal: the rest of the statement holds.                       *)
(***************************************************************************)
C10_CandidatesFromSurvivors ==
    /\ [](\A i \in DOMAIN candidates :
            \A k \in DOMAIN candidates[i] :
                /\ i \in ids
                /\ \E j \in 1..gz_pos :
                      /\ Survives(clinvar_file[j], i)
                      /\ Render(Normalized(clinvar_file[j])) = k
                      /\ Normalized(clinvar_file[j]) = candidates[i][k]
                /\ candidates[i][k][3] \in Nucleotides
                /\ candidates[i][k][4] \in Nucleotides
                /\ Render(candidates[i][k]) = k)
    /\ [][\A i \in DOMAIN candidates :
            /\ i \in DOMAIN candidates'
            /\ \A k \in DOMAIN candidates[i] :
                  /\ k \in DOMAIN candidates'[i]
                  /\ candidates'[i][k] = candidates[i][k]]_vars

\* two rows were kept, one of them written with lowercase alleles and
\* padded fields
C10_Witness ==
    /\ pc = "scan"
    /\ kept_rows = 2
    /\ \E j \in 1..gz_pos :
          /\ Field(clinvar_file[j], "ReferenceAlleleVCF")
                # Upper(Trimmed(clinvar_file[j], "ReferenceAlleleVCF"))
          /\ \E i \in DOMAIN candidates : Survives(clinvar_file[j], i)

====
